---- MODULE Spec2Model ----
\* The JSON-RPC dispatch loop and the subscription lifecycle of
\* src/src/nap_msg/rpc.py (class RpcServer), as a state machine.
\*
\* asyncio runs the dispatcher (serve) and the background task (watch_forever)
\* on one thread: code between two awaits is atomic.  The dispatcher suspends
\* at three places only: the readline (rpc.py:25), the await of the cancelled
\* task (rpc.py:170) and the await of the relay (rpc.py:143/148/153).  Each
\* action below is the code from one suspension point to the next; the step
\* from the end of a handler back to the readline (LoopBack) is set apart so
\* that the state in which a request has just been handled can be observed,
\* and no task runs in between.
\*
\* The request signer and the speech-recognition call of
\* src/src/nap_msg/asr.py are a second state machine (SpecAsr) over variables
\* of their own; rpc.py leaves them alone and asr.py leaves rpc.py's alone.
EXTENDS Integers, Sequences, FiniteSets, Bags, TLC

\* ---------------------------------------------------------------- bounds
MaxLines  == 3      \* input lines read before the model stops reading
MaxEvents == 1      \* events the gateway produces
MaxSigns  == 2      \* calls of the signer that are kept for comparison

\* ------------------------------------------------- Python values, dict.get
\* dict.get(key) yields None or a value: None is <<>>, a value v is <<v>>.
None    == <<>>
Some(v) == <<v>>

\* truthiness of an optional string / list / bool (Python `not x`, `x or y`)
TruthyStr(o)  == o # None /\ o[1] # ""
TruthyList(o) == o # None /\ o[1] # <<>>
TruthyBool(o) == o # None /\ o[1]
OrStr(a, b)   == IF TruthyStr(a) THEN a ELSE b
OrList(a, b)  == IF TruthyList(a) THEN a ELSE b

\* str(x) of an optional string: str(None) is the text "None"
Str(o) == IF o = None THEN "None" ELSE o[1]

\* -------------------------------------------------------------- requests
\* params after `request.get("params") or {}`: a dict (isdict) whose absent
\* keys read as None, or a truthy non-dict JSON value (a list, a string, a
\* number), on which .get does not exist.
EmptyParams ==
    [isdict |-> TRUE,
     channel |-> None, type |-> None, group_id |-> None, user_id |-> None,
     message |-> None, messages |-> None, nodes |-> None, napcat_url |-> None,
     text |-> None, to |-> None, chatId |-> None, chat_id |-> None,
     isGroup |-> None]

NonDictParams == [EmptyParams EXCEPT !.isdict = FALSE]

Seg  == "seg:text:hi"        \* one message segment
Node == "node:1"             \* one forward node
Url  == "ws://gw"

\* send with the channel inferred from group_id / user_id
SendInferred ==
    { [EmptyParams EXCEPT !.group_id = g, !.user_id = u, !.message = m] :
        g \in {None, Some("123")},
        u \in {None, Some("456")},
        m \in {None, Some(<<>>), Some(<<Seg>>)} }

\* send with channel group or private
SendDirect ==
    { [EmptyParams EXCEPT !.channel = Some("group"), !.group_id = g,
                          !.message = m] :
        g \in {None, Some("123")}, m \in {None, Some(<<>>), Some(<<Seg>>)} }
    \cup
    { [EmptyParams EXCEPT !.channel = Some("private"), !.user_id = u,
                          !.message = m] :
        u \in {None, Some("456")}, m \in {None, Some(<<>>), Some(<<Seg>>)} }

\* send with channel group_forward and its two list keys
SendForward ==
    { [EmptyParams EXCEPT !.channel = Some("group_forward"),
                          !.group_id = Some("123"), !.messages = ms,
                          !.nodes = n] :
        ms \in {None, Some(<<>>), Some(<<Node>>)},
        n  \in {None, Some(<<Node>>)} }
    \cup
    { [EmptyParams EXCEPT !.channel = Some("group_forward"),
                          !.messages = Some(<<Node>>)] }

\* send with a channel that is none of the three, and the "type" alias
SendOther ==
    { [EmptyParams EXCEPT !.channel = c, !.type = t, !.user_id = Some("456"),
                          !.message = Some(<<Seg>>)] :
        c \in {None, Some("bogus")},
        t \in {None, Some("private"), Some("bogus")} }

SendParams == SendInferred \cup SendDirect \cup SendForward \cup SendOther

MessageSendParams ==
    { [EmptyParams EXCEPT !.text = x, !.to = t, !.chatId = ci,
                          !.isGroup = ig] :
        x   \in {None, Some(""), Some("hi")},
        t   \in {None, Some("123")},
        ci  \in {None, Some("77")},
        ig  \in {None, Some(FALSE), Some(TRUE)} }
    \cup
    { [EmptyParams EXCEPT !.text = Some("hi"), !.chat_id = Some("88")] }

SubscribeParams ==
    { [EmptyParams EXCEPT !.napcat_url = u] : u \in {None, Some(Url)} }

ReqIds == {None, Some(1), Some(2)}

KnownMethods ==
    {"initialize", "watch.subscribe", "watch.unsubscribe", "message.send",
     "send", "chats.list"}

\* method None is a request without a "method" key
UnknownMethods == {Some("bogus"), None}

ParamsOf(m) ==
    IF m = Some("send") THEN SendParams \cup {NonDictParams}
    ELSE IF m = Some("message.send") THEN MessageSendParams \cup {NonDictParams}
    ELSE IF m = Some("watch.subscribe") THEN SubscribeParams \cup {NonDictParams}
    ELSE {EmptyParams, NonDictParams}

\* the lines that parse to a JSON object with this method
Requests(m) ==
    { [kind |-> "object", method |-> m, id |-> i, params |-> p] :
        i \in ReqIds, p \in ParamsOf(m) }

AllRequests ==
    UNION { Requests(m) : m \in {Some(k) : k \in KnownMethods} \cup UnknownMethods }

\* a line that parses to a JSON value that is no object
NonObjectKinds == {"array", "number", "string", "null"}
NonObject(k) ==
    [kind |-> k, method |-> None, id |-> None, params |-> EmptyParams]

NoRequest == NonObject("none")

\* a line that gave no request: empty after strip() ("blank"), or not JSON
\* ("invalid")
Skipped(k) == NonObject(k)

\* ----------------------------------------------------------------- state
VARIABLES
    pc,          \* where serve() is: "read" (rpc.py:25), "stop_wait" (rpc.py:170),
                 \* "relay_wait" (rpc.py:143/148/153), "handled" (the handler
                 \* is back in serve, rpc.py:38), "closed", "crashed"
    nread,       \* input lines consumed so far
    request,     \* what this iteration's line parsed to (rpc.py:32)
    stopping,    \* the task _stop_watch is awaiting (local `task`, rpc.py:166)
    watch_task,  \* self._watch_task: None or Some(task number)
    tasks,       \* status of every task created so far, by task number
    cursor,      \* per task, the number of gateway events it has consumed
    nevents,     \* events the gateway has produced
    output,      \* lines written to stdout in this iteration of the serve
                 \* loop (since rpc.py:25), each with the writer that wrote it
    relay,       \* commands issued to the relay in this iteration
    reply,       \* what the relay did with the command: "none" so far, a
                 \* response, or "fault"
    delivered,   \* per gateway event, the notifications written for it
    env_url,     \* os.getenv("NAPCAT_URL")
    asr_env,     \* asr.py: the TENCENT_* variables of the process environment
    clock,       \* asr.py:98: what time.time() returns, in whole seconds
    signed,      \* the calls of _build_tc3_headers made so far from outside
                 \* sentence_recognize, each with the headers it returned:
                 \* a bag, a call made twice with one outcome counts twice
    asr_call     \* the last call of sentence_recognize and how it ended

\* the state of asr.py, which rpc.py never touches
asr_vars == <<asr_env, clock, signed, asr_call>>

\* the state of rpc.py
rpc_vars == <<pc, nread, request, stopping, watch_task, tasks, cursor,
              nevents, output, relay, reply, delivered, env_url>>

vars == <<pc, nread, request, stopping, watch_task, tasks, cursor,
          nevents, output, relay, reply, delivered, env_url, asr_vars>>

\* who wrote a line: 0 is serve (the dispatcher), t > 0 is background task t
ByServe   == 0
ByTask(t) == t

\* ---------------------------------------------------------------- output
\* _write_json that gives the event loop a turn between the object and its
\* newline (an awaited drain after the first write): the line is left open
\* and whatever is written next follows the object directly
_write_json_yielding(out, obj, by) ==
    Append(out, [line |-> obj, by |-> by, nl |-> FALSE])

\* rpc.py:189-192: write(json.dumps(obj)), write("\n"), flush(), with no await
\* in between: the object and its newline are written in the step of the
\* writer that called it.  nl: the newline follows the object directly.
_write_json(out, obj, by) == Append(out, [line |-> obj, by |-> by, nl |-> TRUE])

\* _write_result without the `req_id is None` test: the id is written as null
_write_result_always(out, req_id, result, by) ==
    _write_json(out, [jsonrpc |-> "2.0", id |-> req_id, result |-> result], by)

\* rpc.py:178-181
_write_result(out, req_id, result, by) ==
    IF req_id = None THEN out
    ELSE _write_json(out, [jsonrpc |-> "2.0", id |-> req_id,
                           result |-> result], by)

\* rpc.py:183-187
_write_error(out, req_id, code, message, by) ==
    IF req_id = None THEN out
    ELSE _write_json(out, [jsonrpc |-> "2.0", id |-> req_id,
                           error |-> [code |-> code, message |-> message]], by)

\* watch.py (not in src/): the params of a message.receive notification
_event_to_receive_params(event) == [event |-> event]

\* rpc.py:174-176
_emit_notification(out, event, by) ==
    _write_json(out, [jsonrpc |-> "2.0", method |-> "message.receive",
                      params |-> _event_to_receive_params(event)], by)

IsResponse(e)     == "id" \in DOMAIN e.line
IsResult(e)       == "result" \in DOMAIN e.line
IsError(e)        == "error" \in DOMAIN e.line
IsNotification(e) == "method" \in DOMAIN e.line

\* ================================================================ asr.py
\* Text is a sequence of one-character strings, so that strip() is computed.
\* Bytes are a sequence of numbers.
Blank == " "

\* str.strip(): leading and trailing blanks removed
RECURSIVE LStrip(_)
LStrip(s) == IF s # <<>> /\ Head(s) = Blank THEN LStrip(Tail(s)) ELSE s
RECURSIVE RStrip(_)
RStrip(s) ==
    IF s # <<>> /\ s[Len(s)] = Blank THEN RStrip(SubSeq(s, 1, Len(s) - 1)) ELSE s
Strip(s) == RStrip(LStrip(s))

\* os.getenv(name, default) on a variable that is unset (None) or set
Getenv(v, default) == IF v = None THEN default ELSE v[1]

\* hashlib / hmac / base64 / json.dumps / str: each is a function of its
\* arguments alone and is kept as the term it is applied to (no two different
\* arguments give one digest)
Sha256Hex(x)     == <<"sha256", x>>
_hmac_sha256(key, msg) == <<"hmac", key, msg>>
HmacHex(key, msg) == <<"hex", _hmac_sha256(key, msg)>>
B64Encode(data)  == <<"b64", data>>
JsonDumps(obj)   == <<"json", obj>>
StrInt(n)        == <<"str", n>>

\* asr.py:19: the UTC calendar day of a timestamp, formatted %Y-%m-%d: one
\* text per day since the epoch
DaySeconds == 86400
UtcDate(timestamp) == <<"date", timestamp \div DaySeconds>>

\* asr.py:22-33
CanonicalRequest(body) ==
    <<"POST", "/", "", "content-type:application/json; charset=utf-8",
      "host:asr.tencentcloudapi.com", "", "content-type;host", Sha256Hex(body)>>

\* asr.py:35
CredentialScope(timestamp) == <<UtcDate(timestamp), "/asr/tc3_request">>

\* asr.py:36-43
StringToSign(body, timestamp) ==
    <<"TC3-HMAC-SHA256", StrInt(timestamp), CredentialScope(timestamp),
      Sha256Hex(CanonicalRequest(body))>>

\* asr.py:45-48
Signature(body, timestamp, secret_key) ==
    LET secret_date    == _hmac_sha256(<<"T", "C", "3">> \o secret_key,
                                           UtcDate(timestamp))
        secret_service == _hmac_sha256(secret_date, "asr")
        secret_signing == _hmac_sha256(secret_service, "tc3_request")
    IN  HmacHex(secret_signing, StringToSign(body, timestamp))

\* _build_tc3_headers that takes the time of signing from the clock instead
\* of its timestamp argument
_build_tc3_headers_now(body, timestamp, secret_id, secret_key, region) ==
    [Authorization |->
        <<"TC3-HMAC-SHA256 Credential=", secret_id, "/",
          CredentialScope(clock),
          ", SignedHeaders=content-type;host, Signature=",
          Signature(body, clock, secret_key)>>,
     Content_Type       |-> "application/json; charset=utf-8",
     Host               |-> "asr.tencentcloudapi.com",
     X_TC_Action        |-> "SentenceRecognition",
     X_TC_Version       |-> "2019-06-14",
     X_TC_Timestamp     |-> StrInt(clock),
     X_TC_RequestClient |-> "maid",
     X_TC_Region        |-> IF region # None /\ region[1] # <<>> THEN region
                            ELSE None]

\* asr.py:18-67: the headers, as a dict read with .get: X_TC_Region is None
\* when the header is not set (asr.py:64-65: region None or "")
_build_tc3_headers(body, timestamp, secret_id, secret_key, region) ==
    [Authorization |->
        <<"TC3-HMAC-SHA256 Credential=", secret_id, "/",
          CredentialScope(timestamp),
          ", SignedHeaders=content-type;host, Signature=",
          Signature(body, timestamp, secret_key)>>,
     Content_Type       |-> "application/json; charset=utf-8",
     Host               |-> "asr.tencentcloudapi.com",
     X_TC_Action        |-> "SentenceRecognition",
     X_TC_Version       |-> "2019-06-14",
     X_TC_Timestamp     |-> StrInt(timestamp),
     X_TC_RequestClient |-> "maid",
     X_TC_Region        |-> IF region # None /\ region[1] # <<>> THEN region
                            ELSE None]

\* asr.py:87-95: the request payload
Payload(data, voice_format, engine, project_id) ==
    [SubServiceType |-> 2, EngSerViceType |-> engine, SourceType |-> 1,
     VoiceFormat |-> voice_format, Data |-> B64Encode(data),
     ProjectId |-> project_id]

DefaultEngine == <<"1", "6", "k", "_", "z", "h">>

\* how a call of sentence_recognize ended: the exception it raised, the
\* headers it had signed by then and the POSTs it had issued
Raised(type, message, headers, posts) ==
    [raised |-> Some([type |-> type, message |-> message]),
     headers |-> headers, posts |-> posts]

\* sentence_recognize without its two checks (asr.py:76-82): whatever the
\* audio and the credentials are, the request is built and signed
sentence_recognize_unchecked(data, voice_format, eng_service_type, project_id) ==
    LET secret_id  == Strip(Getenv(asr_env.TENCENT_SECRET_ID, <<>>))
        secret_key == Strip(Getenv(asr_env.TENCENT_SECRET_KEY, <<>>))
        stripped   == Strip(Getenv(asr_env.TENCENT_ASR_REGION, <<>>))
        region     == IF stripped # <<>> THEN Some(stripped) ELSE None
        engine     == IF eng_service_type # None /\ eng_service_type[1] # <<>>
                      THEN eng_service_type[1]
                      ELSE Strip(Getenv(asr_env.TENCENT_ASR_ENGINE, DefaultEngine))
        body       == JsonDumps(Payload(data, voice_format, engine, project_id))
    IN  Raised("NameError", "name 'logger' is not defined",
               Some(_build_tc3_headers(body, clock, secret_id, secret_key,
                                       region)), 0)

\* asr.py:70-102.  asr.py neither imports logging nor binds `logger`, so the
\* logger.info of asr.py:102 raises NameError once the request is signed; the
\* POST and the reading of the reply (asr.py:104-123) are never reached.
sentence_recognize(data, voice_format, eng_service_type, project_id) ==
    LET secret_id  == Strip(Getenv(asr_env.TENCENT_SECRET_ID, <<>>))
        secret_key == Strip(Getenv(asr_env.TENCENT_SECRET_KEY, <<>>))
        stripped   == Strip(Getenv(asr_env.TENCENT_ASR_REGION, <<>>))
        region     == IF stripped # <<>> THEN Some(stripped) ELSE None
        engine     == IF eng_service_type # None /\ eng_service_type[1] # <<>>
                      THEN eng_service_type[1]
                      ELSE Strip(Getenv(asr_env.TENCENT_ASR_ENGINE, DefaultEngine))
        body       == JsonDumps(Payload(data, voice_format, engine, project_id))
    IN  IF data = <<>>
        THEN Raised("ValueError", "Audio data is empty", None, 0)
        ELSE IF secret_id = <<>> \/ secret_key = <<>>
        THEN Raised("RuntimeError",
                    "Missing Tencent Cloud credentials: set TENCENT_SECRET_ID and TENCENT_SECRET_KEY",
                    None, 0)
        ELSE Raised("NameError", "name 'logger' is not defined",
                    Some(_build_tc3_headers(body, clock, secret_id, secret_key,
                                            region)), 0)

\* the environments, clock readings and arguments the model draws from
SecretIdValues  == {None, Some(<<Blank>>), Some(<<Blank, "A", "K", Blank>>)}
SecretKeyValues == {None, Some(<<>>), Some(<<"s", "k">>)}
RegionValues    == {None, Some(<<Blank, "a", "p">>)}
AsrEnvs ==
    { [TENCENT_SECRET_ID |-> i, TENCENT_SECRET_KEY |-> k,
       TENCENT_ASR_REGION |-> r, TENCENT_ASR_ENGINE |-> None] :
        i \in SecretIdValues, k \in SecretKeyValues, r \in RegionValues }
NoAsrEnv ==
    [TENCENT_SECRET_ID |-> None, TENCENT_SECRET_KEY |-> None,
     TENCENT_ASR_REGION |-> None, TENCENT_ASR_ENGINE |-> None]
Timestamps == {0, DaySeconds - 1, DaySeconds}
AudioValues == {<<>>, <<1>>}
Mp3 == <<"m", "p", "3">>
SignBodies ==
    { JsonDumps(Payload(d, Mp3, DefaultEngine, None)) : d \in {<<1>>, <<2>>} }

\* ------------------------------------------------------------------ Init
Init ==
    /\ pc = "read"
    /\ nread = 0
    /\ request = NoRequest
    /\ stopping = None
    /\ watch_task = None
    /\ tasks = <<>>
    /\ cursor = <<>>
    /\ nevents = 0
    /\ output = <<>>
    /\ relay = <<>>
    /\ reply = "none"
    /\ delivered = [e \in 1..MaxEvents |-> 0]
    /\ env_url \in {None, Some(Url)}
    /\ asr_env = NoAsrEnv
    /\ clock = 0
    /\ signed = EmptyBag
    /\ asr_call = None

\* asyncio.run (rpc.py:202) cancels every task still pending when serve ends
CancelAll(ts) ==
    [t \in 1..Len(ts) |->
        IF ts[t] \in {"running", "cancelling"} THEN "cancelled" ELSE ts[t]]

\* ------------------------------------------------- serve: lines not handled
\* rpc.py:25-27: readline returns "" at end of input
ReadEof ==
    /\ pc = "read"
    /\ pc' = "closed"
    /\ tasks' = CancelAll(tasks)
    /\ UNCHANGED <<reply, nread, request, stopping, watch_task, cursor,
                   nevents, output, relay, delivered, env_url, asr_vars>>

\* rpc.py:28-30: a line that is empty after strip()
ReadBlank ==
    /\ pc = "read" /\ nread < MaxLines
    /\ nread' = nread + 1
    /\ request' = Skipped("blank")
    /\ output' = <<>>
    /\ UNCHANGED <<pc, stopping, watch_task, tasks, cursor, nevents,
                   relay, reply, delivered, env_url, asr_vars>>

\* serve answering a line that is not JSON with a parse error under a null id
ReadInvalidJsonAnswered ==
    /\ pc = "read" /\ nread < MaxLines
    /\ nread' = nread + 1
    /\ request' = Skipped("invalid")
    /\ output' = _write_json(<<>>, [jsonrpc |-> "2.0", id |-> None,
                                    error |-> [code |-> -32700,
                                               message |-> "Parse error"]],
                             ByServe)
    /\ UNCHANGED <<pc, stopping, watch_task, tasks, cursor, nevents,
                   relay, reply, delivered, env_url, asr_vars>>

\* rpc.py:31-35: json.loads raises
ReadInvalidJson ==
    /\ pc = "read" /\ nread < MaxLines
    /\ nread' = nread + 1
    /\ request' = Skipped("invalid")
    /\ output' = <<>>
    /\ UNCHANGED <<pc, stopping, watch_task, tasks, cursor, nevents,
                   relay, reply, delivered, env_url, asr_vars>>

\* rpc.py:37-41 with rpc.py:44: the line parses to a list, number, string or
\* null; request.get raises AttributeError in _handle_request, and again in
\* the except clause (request.get("id")), which nothing catches: serve ends
\* with the exception and asyncio.run tears the loop down.
ReadNonObject(k) ==
    /\ pc = "read" /\ nread < MaxLines
    /\ nread' = nread + 1
    /\ request' = NonObject(k)
    /\ pc' = "crashed"
    /\ tasks' = CancelAll(tasks)
    /\ UNCHANGED <<stopping, watch_task, cursor, nevents, output, relay,
                   reply, delivered, env_url, asr_vars>>

\* _handle_request whose last handler is the fall-through
RouteFallThrough(method) ==
    IF method = Some("initialize") THEN "initialize"
    ELSE IF method = Some("watch.subscribe") THEN "watch.subscribe"
    ELSE IF method = Some("watch.unsubscribe") THEN "watch.unsubscribe"
    ELSE IF method = Some("message.send") THEN "message.send"
    ELSE IF method = Some("send") THEN "send"
    ELSE "chats.list"

\* rpc.py:48-67: the handler _handle_request picks for a method
Route(method) ==
    IF method = Some("initialize") THEN "initialize"
    ELSE IF method = Some("watch.subscribe") THEN "watch.subscribe"
    ELSE IF method = Some("watch.unsubscribe") THEN "watch.unsubscribe"
    ELSE IF method = Some("message.send") THEN "message.send"
    ELSE IF method = Some("send") THEN "send"
    ELSE IF method = Some("chats.list") THEN "chats.list"
    ELSE "not found"

\* rpc.py:25-32, 44-46: a line that parses to an object
Read(r) ==
    /\ pc = "read" /\ nread < MaxLines
    /\ nread' = nread + 1
    /\ request' = r
    /\ UNCHANGED reply

\* ------------------------------------------------------- the relay client
\* client.py (not in src/): what the relay answers to a command, or a fault
\* (connection refused, timeout) raised out of the awaited call.
RelayResponses == {"relay:ok", "relay:failed"}
RelayFaultText == "relay timeout"

\* messages.py / client.py (not in src/): one Command per helper call
Command(type, target, body) == [type |-> type, target |-> target, body |-> body]
send_group_message(group_id, message) ==
    Command("send_group_msg", group_id, message)
send_private_message(user_id, message) ==
    Command("send_private_msg", user_id, message)

\* ----------------------------------------------------------------- send
\* the channel resolved without the "type" alias
ResolveChannelNoAlias(params) ==
    LET channel == params.channel
    IN  IF TruthyStr(channel) THEN channel
        ELSE IF TruthyStr(params.group_id) THEN Some("group")
        ELSE IF TruthyStr(params.user_id) THEN Some("private")
        ELSE channel

\* rpc.py:124-134: the channel _handle_send dispatches on
ResolveChannel(params) ==
    LET channel == OrStr(params.channel, params.type)
    IN  IF TruthyStr(channel) THEN channel
        ELSE IF TruthyStr(params.group_id) THEN Some("group")
        ELSE IF TruthyStr(params.user_id) THEN Some("private")
        ELSE channel

\* rpc.py:136-155: up to the awaited relay call: either the ValueError raised
\* inside the try block, or the command handed to the relay
SendPlan(params) ==
    LET channel == ResolveChannel(params)
    IN  IF channel = Some("group_forward") THEN
            LET messages == OrList(params.messages, params.nodes)
            IN  IF ~TruthyList(messages)
                THEN [ok |-> FALSE,
                      message |-> "messages is required for group_forward"]
                ELSE [ok |-> TRUE,
                      cmd |-> Command("send_group_forward_msg",
                                      Some(Str(params.group_id)), messages[1])]
        ELSE IF channel = Some("group") THEN
            IF ~TruthyList(params.message)
            THEN [ok |-> FALSE, message |-> "message is required for group send"]
            ELSE [ok |-> TRUE,
                  cmd |-> send_group_message(params.group_id, params.message[1])]
        ELSE IF channel = Some("private") THEN
            IF ~TruthyList(params.message)
            THEN [ok |-> FALSE,
                  message |-> "message is required for private send"]
            ELSE [ok |-> TRUE,
                  cmd |-> send_private_message(params.user_id, params.message[1])]
        ELSE [ok |-> FALSE,
              message |-> "Unsupported channel; use group, group_forward, or private"]

\* the code _handle_send answers a ValueError or a relay fault with (rpc.py:158)
SendErrorCode == -32000

AttributeErrorText == "object has no attribute 'get'"

\* rpc.py:37-41: serve catches what a handler raises
ServeFault(out, req_id, text) ==
    /\ output' = _write_error(out, req_id, -32000, text, ByServe)
    /\ pc' = "handled"

\* _handle_send without the `return` of rpc.py:159: after the error it goes on
\* to rpc.py:161, where `result` is unbound, and serve answers that fault too
_handle_send_no_return(params, req_id) ==
    IF ~params.isdict
    THEN ServeFault(output, req_id, AttributeErrorText) /\ UNCHANGED relay
    ELSE IF ~SendPlan(params).ok
    THEN /\ output' = _write_error(
                        _write_error(output, req_id, SendErrorCode,
                                     SendPlan(params).message, ByServe),
                        req_id, -32000, "name 'result' is not defined", ByServe)
         /\ pc' = "handled"
         /\ UNCHANGED relay
    ELSE /\ relay' = Append(relay, SendPlan(params).cmd)
         /\ pc' = "relay_wait"
         /\ UNCHANGED output

\* _handle_send that hands the relay call to a task of its own and returns:
\* serve goes back to the readline while the command is still unanswered
_handle_send_detached(params, req_id) ==
    IF ~params.isdict
    THEN ServeFault(output, req_id, AttributeErrorText) /\ UNCHANGED relay
    ELSE IF ~SendPlan(params).ok
    THEN /\ output' = _write_error(output, req_id, SendErrorCode,
                                   SendPlan(params).message, ByServe)
         /\ pc' = "handled"
         /\ UNCHANGED relay
    ELSE /\ relay' = Append(relay, SendPlan(params).cmd)
         /\ pc' = "read"
         /\ UNCHANGED output

\* rpc.py:123-161, to the await
_handle_send(params, req_id) ==
    IF ~params.isdict
    THEN ServeFault(output, req_id, AttributeErrorText) /\ UNCHANGED relay
    ELSE IF ~SendPlan(params).ok
    THEN /\ output' = _write_error(output, req_id, SendErrorCode,
                                   SendPlan(params).message, ByServe)
         /\ pc' = "handled"
         /\ UNCHANGED relay
    ELSE /\ relay' = Append(relay, SendPlan(params).cmd)
         /\ pc' = "relay_wait"
         /\ UNCHANGED output

\* the dict of message.send with the target always put under user_id, also for
\* a group
NormalizedSendTargetAsUser(params) ==
    LET to == OrStr(OrStr(params.to, params.chatId), params.chat_id)
        is_group == TruthyBool(params.isGroup)
    IN  [EmptyParams EXCEPT
            !.channel    = IF is_group THEN Some("group") ELSE Some("private"),
            !.user_id    = to,
            !.message    = Some(<<"seg:text:" \o params.text[1]>>),
            !.napcat_url = params.napcat_url]

\* rpc.py:73-93: the dict message.send hands to _handle_send
NormalizedSend(params) ==
    LET to == OrStr(OrStr(params.to, params.chatId), params.chat_id)
        is_group == TruthyBool(params.isGroup)
    IN  [EmptyParams EXCEPT
            !.channel    = IF is_group THEN Some("group") ELSE Some("private"),
            !.group_id   = IF is_group THEN to ELSE None,
            !.user_id    = IF is_group THEN None ELSE to,
            !.message    = Some(<<"seg:text:" \o params.text[1]>>),
            !.napcat_url = params.napcat_url]

\* rpc.py:73-93
_handle_message_send(params, req_id) ==
    IF ~params.isdict
    THEN ServeFault(output, req_id, AttributeErrorText) /\ UNCHANGED relay
    ELSE IF \/ ~TruthyStr(OrStr(OrStr(params.to, params.chatId), params.chat_id))
            \/ params.text = None
    THEN /\ output' = _write_error(output, req_id, -32602,
                                   "to/chatId and text are required", ByServe)
         /\ pc' = "handled"
         /\ UNCHANGED relay
    ELSE _handle_send(NormalizedSend(params), req_id)

HandleSend(r) ==
    /\ Route(r.method) = "send"
    /\ Read(r)
    /\ _handle_send(r.params, r.id)
    /\ UNCHANGED <<stopping, watch_task, tasks, cursor, nevents, delivered,
                   env_url, asr_vars>>

HandleMessageSend(r) ==
    /\ Route(r.method) = "message.send"
    /\ Read(r)
    /\ _handle_message_send(r.params, r.id)
    /\ UNCHANGED <<stopping, watch_task, tasks, cursor, nevents, delivered,
                   env_url, asr_vars>>

\* _handle_send answering with a status of its own instead of the relay's
\* response
RelayReturnOwnStatus(result) ==
    /\ pc = "relay_wait"
    /\ reply' = result
    /\ output' = _write_result(output, request.id, "sent", ByServe)
    /\ pc' = "handled"
    /\ UNCHANGED <<nread, request, stopping, watch_task, tasks, cursor,
                   nevents, relay, delivered, env_url, asr_vars>>

\* rpc.py:143/148/153 then 161: the relay answers
RelayReturn(result) ==
    /\ pc = "relay_wait"
    /\ reply' = result
    /\ output' = _write_result(output, request.id, result, ByServe)
    /\ pc' = "handled"
    /\ UNCHANGED <<nread, request, stopping, watch_task, tasks, cursor,
                   nevents, relay, delivered, env_url, asr_vars>>

\* rpc.py:156-159: the awaited relay call raises
RelayFault ==
    /\ pc = "relay_wait"
    /\ reply' = "fault"
    /\ output' = _write_error(output, request.id, SendErrorCode,
                              RelayFaultText, ByServe)
    /\ pc' = "handled"
    /\ UNCHANGED <<nread, request, stopping, watch_task, tasks, cursor,
                   nevents, relay, delivered, env_url, asr_vars>>

\* ------------------------------------------- initialize, chats.list, unknown
\* rpc.py:69-71
_handle_initialize(req_id) ==
    output' = _write_result(output, req_id, "capabilities:streaming,attachments",
                            ByServe)

\* initialize that starts the session afresh and forgets the subscription
\* handle, leaving the task behind
HandleInitializeForgets(r) ==
    /\ Route(r.method) = "initialize"
    /\ Read(r)
    /\ _handle_initialize(r.id)
    /\ UNCHANGED relay
    /\ pc' = "handled"
    /\ watch_task' = None
    /\ UNCHANGED <<stopping, tasks, cursor, nevents, delivered,
                   env_url, asr_vars>>

HandleInitialize(r) ==
    /\ Route(r.method) = "initialize"
    /\ Read(r)
    /\ _handle_initialize(r.id)
    /\ UNCHANGED relay
    /\ pc' = "handled"
    /\ UNCHANGED <<stopping, watch_task, tasks, cursor, nevents, delivered,
                   env_url, asr_vars>>

\* rpc.py:63-65
HandleChatsList(r) ==
    /\ Route(r.method) = "chats.list"
    /\ Read(r)
    /\ output' = _write_result(output, r.id, "[]", ByServe)
    /\ UNCHANGED relay
    /\ pc' = "handled"
    /\ UNCHANGED <<stopping, watch_task, tasks, cursor, nevents, delivered,
                   env_url, asr_vars>>

\* rpc.py:67
MethodNotFound(req_id) ==
    output' = _write_error(output, req_id, -32601, "Method not found", ByServe)

HandleUnknown(r) ==
    /\ Route(r.method) = "not found"
    /\ Read(r)
    /\ MethodNotFound(r.id)
    /\ UNCHANGED relay
    /\ pc' = "handled"
    /\ UNCHANGED <<stopping, watch_task, tasks, cursor, nevents, delivered,
                   env_url, asr_vars>>

\* ---------------------------------------------------- subscription lifecycle
TaskFaultText == "connection closed"

\* _stop_watch without task.cancel() and the await: the handle is dropped and
\* the old task is left running
_stop_watch_drop_handle(wt, ts) == [tasks |-> ts, await |-> "return"]

\* rpc.py:163-172, to the await: the task table after task.cancel() and what
\* `await task` does.  cancel() is a no-op on a task that is done; awaiting a
\* done task does not suspend: it returns, or raises what the task raised,
\* which is no CancelledError and so leaves _stop_watch.
_stop_watch(wt, ts) ==
    IF wt = None THEN [tasks |-> ts, await |-> "return"]
    ELSE IF ts[wt[1]] = "running"
    THEN [tasks |-> [ts EXCEPT ![wt[1]] = "cancelling"], await |-> "suspend"]
    ELSE IF ts[wt[1]] = "raised"
    THEN [tasks |-> ts, await |-> "raise"]
    ELSE [tasks |-> ts, await |-> "return"]

\* _handle_subscribe that gives the event loop a turn between create_task and
\* the response (an await in between): the new task runs first and notifies
\* the event at hand before "subscribed" is written
SubscribeRestTaskFirst(out, params, req_id, ts) ==
    IF ~params.isdict
    THEN /\ ServeFault(out, req_id, AttributeErrorText)
         /\ tasks' = ts
         /\ watch_task' = None
         /\ UNCHANGED cursor
    ELSE IF ~TruthyStr(OrStr(params.napcat_url, env_url))
    THEN /\ output' = _write_error(out, req_id, -32000,
                                   "NAPCAT_URL is required", ByServe)
         /\ pc' = "handled"
         /\ tasks' = ts
         /\ watch_task' = None
         /\ UNCHANGED cursor
    ELSE /\ tasks' = Append(ts, "running")
         /\ cursor' = Append(cursor, nevents)
         /\ watch_task' = Some(Len(ts) + 1)
         /\ output' = _write_result(
                         _emit_notification(out, nevents, ByTask(Len(ts) + 1)),
                         req_id, "subscribed", ByServe)
         /\ pc' = "handled"

\* _handle_subscribe that leaves the "subscribed" response to the new task,
\* to be written once its first event has arrived
SubscribeRestAckOnEvent(out, params, req_id, ts) ==
    IF ~params.isdict
    THEN /\ ServeFault(out, req_id, AttributeErrorText)
         /\ tasks' = ts
         /\ watch_task' = None
         /\ UNCHANGED cursor
    ELSE IF ~TruthyStr(OrStr(params.napcat_url, env_url))
    THEN /\ output' = _write_error(out, req_id, -32000,
                                   "NAPCAT_URL is required", ByServe)
         /\ pc' = "handled"
         /\ tasks' = ts
         /\ watch_task' = None
         /\ UNCHANGED cursor
    ELSE /\ tasks' = Append(ts, "running")
         /\ cursor' = Append(cursor, nevents)
         /\ watch_task' = Some(Len(ts) + 1)
         /\ output' = out
         /\ pc' = "handled"

\* _handle_subscribe that falls back to a built-in endpoint when none is given:
\* the task is created whatever params and the environment hold
SubscribeRestDefaultUrl(out, params, req_id, ts) ==
    IF ~params.isdict
    THEN /\ ServeFault(out, req_id, AttributeErrorText)
         /\ tasks' = ts
         /\ watch_task' = None
         /\ UNCHANGED cursor
    ELSE /\ tasks' = Append(ts, "running")
         /\ cursor' = Append(cursor, nevents)
         /\ watch_task' = Some(Len(ts) + 1)
         /\ output' = _write_result(out, req_id, "subscribed", ByServe)
         /\ pc' = "handled"

\* rpc.py:97-117: out is the output so far, ts the task table _stop_watch left
SubscribeRest(out, params, req_id, ts) ==
    IF ~params.isdict
    THEN /\ ServeFault(out, req_id, AttributeErrorText)
         /\ tasks' = ts
         /\ watch_task' = None
         /\ UNCHANGED cursor
    ELSE IF ~TruthyStr(OrStr(params.napcat_url, env_url))
    THEN /\ output' = _write_error(out, req_id, -32000,
                                   "NAPCAT_URL is required", ByServe)
         /\ pc' = "handled"
         /\ tasks' = ts
         /\ watch_task' = None
         /\ UNCHANGED cursor
    ELSE /\ tasks' = Append(ts, "running")
         /\ cursor' = Append(cursor, nevents)
         /\ watch_task' = Some(Len(ts) + 1)
         /\ output' = _write_result(out, req_id, "subscribed", ByServe)
         /\ pc' = "handled"

\* _handle_subscribe that looks for the endpoint first and stops the old
\* subscription only when there is one to connect to
_handle_subscribe_check_first(params, req_id) ==
    LET stop == _stop_watch(watch_task, tasks)
    IN  IF params.isdict /\ ~TruthyStr(OrStr(params.napcat_url, env_url))
        THEN /\ output' = _write_error(output, req_id, -32000,
                                       "NAPCAT_URL is required", ByServe)
             /\ pc' = "handled"
             /\ UNCHANGED <<watch_task, tasks, stopping, cursor>>
        ELSE IF stop.await = "suspend"
        THEN /\ stopping' = watch_task
             /\ watch_task' = None
             /\ tasks' = stop.tasks
             /\ pc' = "stop_wait"
             /\ UNCHANGED output
             /\ UNCHANGED cursor
        ELSE IF stop.await = "raise"
        THEN /\ ServeFault(output, req_id, TaskFaultText)
             /\ watch_task' = None
             /\ tasks' = stop.tasks
             /\ UNCHANGED <<stopping, cursor>>
        ELSE /\ SubscribeRest(output, params, req_id, stop.tasks)
             /\ UNCHANGED stopping

\* rpc.py:95-117, to the first suspension
_handle_subscribe(params, req_id) ==
    LET stop == _stop_watch(watch_task, tasks)
    IN  IF stop.await = "suspend"
        THEN /\ stopping' = watch_task
             /\ watch_task' = None
             /\ tasks' = stop.tasks
             /\ pc' = "stop_wait"
             /\ UNCHANGED output
             /\ UNCHANGED cursor
        ELSE IF stop.await = "raise"
        THEN /\ ServeFault(output, req_id, TaskFaultText)
             /\ watch_task' = None
             /\ tasks' = stop.tasks
             /\ UNCHANGED <<stopping, cursor>>
        ELSE /\ SubscribeRest(output, params, req_id, stop.tasks)
             /\ UNCHANGED stopping

\* _handle_unsubscribe that refuses when there is nothing to stop
_handle_unsubscribe_strict(req_id) ==
    LET stop == _stop_watch(watch_task, tasks)
    IN  /\ watch_task' = None
        /\ tasks' = stop.tasks
        /\ UNCHANGED cursor
        /\ IF stop.await = "suspend"
           THEN /\ stopping' = watch_task
                /\ pc' = "stop_wait"
                /\ UNCHANGED output
           ELSE IF stop.await = "raise" \/ watch_task = None
           THEN ServeFault(output, req_id, "not subscribed") /\ UNCHANGED stopping
           ELSE /\ output' = _write_result(output, req_id, "unsubscribed",
                                           ByServe)
                /\ pc' = "handled"
                /\ UNCHANGED stopping

\* rpc.py:119-121, to the first suspension
_handle_unsubscribe(req_id) ==
    LET stop == _stop_watch(watch_task, tasks)
    IN  /\ watch_task' = None
        /\ tasks' = stop.tasks
        /\ UNCHANGED cursor
        /\ IF stop.await = "suspend"
           THEN /\ stopping' = watch_task
                /\ pc' = "stop_wait"
                /\ UNCHANGED output
           ELSE IF stop.await = "raise"
           THEN ServeFault(output, req_id, TaskFaultText) /\ UNCHANGED stopping
           ELSE /\ output' = _write_result(output, req_id, "unsubscribed",
                                           ByServe)
                /\ pc' = "handled"
                /\ UNCHANGED stopping

HandleSubscribe(r) ==
    /\ Route(r.method) = "watch.subscribe"
    /\ Read(r)
    /\ _handle_subscribe(r.params, r.id)
    /\ UNCHANGED relay
    /\ UNCHANGED <<nevents, delivered, env_url, asr_vars>>

HandleUnsubscribe(r) ==
    /\ Route(r.method) = "watch.unsubscribe"
    /\ Read(r)
    /\ _handle_unsubscribe(r.id)
    /\ UNCHANGED relay
    /\ UNCHANGED <<nevents, delivered, env_url, asr_vars>>

\* rpc.py:170-172 then 97-117: the awaited task is done, CancelledError is
\* swallowed and _handle_subscribe goes on
ResumeSubscribe ==
    /\ pc = "stop_wait"
    /\ Route(request.method) = "watch.subscribe"
    /\ tasks[stopping[1]] = "cancelled"
    /\ SubscribeRest(output, request.params, request.id, tasks)
    /\ stopping' = None
    /\ UNCHANGED <<nread, request, nevents, relay, reply, delivered,
                   env_url, asr_vars>>

\* rpc.py:170-172 then 121
ResumeUnsubscribe ==
    /\ pc = "stop_wait"
    /\ Route(request.method) = "watch.unsubscribe"
    /\ tasks[stopping[1]] = "cancelled"
    /\ output' = _write_result(output, request.id, "unsubscribed", ByServe)
    /\ pc' = "handled"
    /\ stopping' = None
    /\ UNCHANGED <<nread, request, watch_task, tasks, cursor, nevents,
                   relay, reply, delivered, env_url, asr_vars>>

\* ------------------------------------------------------ the background task
\* the event loop runs a task only while serve is suspended
Suspended == pc \in {"read", "stop_wait", "relay_wait"}

\* the gateway produces one more event
GatewayEvent ==
    /\ Suspended
    /\ nevents < MaxEvents
    /\ nevents' = nevents + 1
    /\ UNCHANGED <<pc, nread, reply, request, stopping, watch_task, tasks,
                   cursor, output, relay, delivered, env_url, asr_vars>>

\* watch.py watch_forever (not in src/): the task takes its next event from
\* the stream and, when the event passes the filters, calls emit (rpc.py:114)
WatchEvent(t, qualifies) ==
    /\ Suspended
    /\ tasks[t] = "running"
    /\ cursor[t] < nevents
    /\ cursor' = [cursor EXCEPT ![t] = cursor[t] + 1]
    /\ IF qualifies
       THEN /\ output' = _emit_notification(output, cursor[t] + 1, ByTask(t))
            /\ delivered' = [delivered EXCEPT ![cursor[t] + 1] = @ + 1]
       ELSE UNCHANGED <<output, delivered>>
    /\ UNCHANGED <<pc, nread, reply, request, stopping, watch_task, tasks,
                   nevents, relay, env_url, asr_vars>>

\* watch.py watch_forever (not in src/): a fault closes the event stream and
\* the task ends on its own, by returning or by raising the fault
WatchFault(t, how) ==
    /\ Suspended
    /\ tasks[t] = "running"
    /\ tasks' = [tasks EXCEPT ![t] = how]
    /\ UNCHANGED <<pc, nread, reply, request, stopping, watch_task, cursor,
                   nevents, output, relay, delivered, env_url, asr_vars>>

\* watch.py watch_forever (not in src/): the cancelled task is resumed with
\* CancelledError at its suspension point and ends
WatchCancelled(t) ==
    /\ Suspended
    /\ tasks[t] = "cancelling"
    /\ tasks' = [tasks EXCEPT ![t] = "cancelled"]
    /\ UNCHANGED <<pc, nread, reply, request, stopping, watch_task, cursor,
                   nevents, output, relay, delivered, env_url, asr_vars>>

\* rpc.py:24: the handler is done and serve goes back to the readline; a new
\* iteration starts
LoopBack ==
    /\ pc = "handled"
    /\ pc' = "read"
    /\ request' = NoRequest
    /\ output' = <<>>
    /\ relay' = <<>>
    /\ reply' = "none"
    /\ stopping' = None
    /\ UNCHANGED <<nread, watch_task, tasks, cursor, nevents, delivered,
                   env_url, asr_vars>>

\* ------------------------------------------------------------------ Next
Next ==
    \/ ReadEof
    \/ ReadBlank
    \/ ReadInvalidJson
    \/ \E k \in NonObjectKinds : ReadNonObject(k)
    \/ /\ pc = "read"
       /\ \E r \in AllRequests :
          \/ HandleInitialize(r)
          \/ HandleChatsList(r)
          \/ HandleUnknown(r)
          \/ HandleSend(r)
          \/ HandleMessageSend(r)
          \/ HandleSubscribe(r)
          \/ HandleUnsubscribe(r)
    \/ \E res \in RelayResponses : RelayReturn(res)
    \/ RelayFault
    \/ ResumeSubscribe
    \/ ResumeUnsubscribe
    \/ LoopBack
    \/ GatewayEvent
    \/ \E t \in 1..Len(tasks), q \in BOOLEAN : WatchEvent(t, q)
    \/ \E t \in 1..Len(tasks), how \in {"returned", "raised"} : WatchFault(t, how)
    \/ \E t \in 1..Len(tasks) : WatchCancelled(t)

Spec == Init /\ [][Next]_vars

\* ------------------------------------------------- asr.py as a state machine
\* the process is started with some environment; rpc.py stays at its start
InitAsr ==
    /\ pc = "read"
    /\ nread = 0
    /\ request = NoRequest
    /\ stopping = None
    /\ watch_task = None
    /\ tasks = <<>>
    /\ cursor = <<>>
    /\ nevents = 0
    /\ output = <<>>
    /\ relay = <<>>
    /\ reply = "none"
    /\ delivered = [e \in 1..MaxEvents |-> 0]
    /\ env_url = None
    /\ asr_env \in AsrEnvs
    /\ clock = 0
    /\ signed = EmptyBag
    /\ asr_call = None

\* time passes
Tick(t) ==
    /\ t > clock
    /\ clock' = t
    /\ UNCHANGED <<asr_env, signed, asr_call, rpc_vars>>

\* asr.py:18-67: one call of the signer, kept with the headers it returned
SignCall(body, timestamp, secret_id, secret_key, region) ==
    /\ BagCardinality(signed) < MaxSigns
    /\ signed' = signed (+) SetToBag(
          { [body |-> body, timestamp |-> timestamp, secret_id |-> secret_id,
             secret_key |-> secret_key, region |-> region,
             headers |-> _build_tc3_headers(body, timestamp, secret_id,
                                            secret_key, region)] })
    /\ UNCHANGED <<asr_env, clock, asr_call, rpc_vars>>

\* asr.py:70-123: one call of sentence_recognize, from its entry to its end
Recognize(data, eng_service_type) ==
    /\ asr_call' = Some([data |-> data, eng_service_type |-> eng_service_type,
                         end |-> sentence_recognize(data, Mp3, eng_service_type,
                                                    None)])
    /\ UNCHANGED <<asr_env, clock, signed, rpc_vars>>

NextAsr ==
    \/ \E t \in Timestamps : Tick(t)
    \/ \E body \in SignBodies, timestamp \in Timestamps,
          region \in {None, Some(<<"a", "p">>)} :
          SignCall(body, timestamp, <<"A", "K">>, <<"s", "k">>, region)
    \/ \E data \in AudioValues, e \in {None, Some(<<"8", "k">>)} :
          Recognize(data, e)

SpecAsr == InitAsr /\ [][NextAsr]_vars

\* ======================================================================
\* Properties
\* ======================================================================
\* the lines serve wrote / the lines background tasks wrote, in `output`
Responses     == SelectSeq(output, IsResponse)
Notifications == SelectSeq(output, IsNotification)

ResultLine(id, result) ==
    [line |-> [jsonrpc |-> "2.0", id |-> id, result |-> result],
     by |-> ByServe, nl |-> TRUE]
ErrorLine(id, code, message) ==
    [line |-> [jsonrpc |-> "2.0", id |-> id,
               error |-> [code |-> code, message |-> message]],
     by |-> ByServe, nl |-> TRUE]

\* tasks that are not done: running, or cancelled but not finished yet
Active == {t \in 1..Len(tasks) : tasks[t] \in {"running", "cancelling"}}

\* this step parses a line to a value and starts handling it
Parsed == pc = "read" /\ pc' \notin {"read", "closed"}
ParsedObject == Parsed /\ request'.kind = "object"

\* ---------------------------------------------------------------------
\* C1: in every reachable state at most one subscription task is active
\* (not done); a running task is always the one the handle names, so a task
\* is created only once its predecessor has been cancelled and has finished;
\* and no gateway event is notified more than once.
C1_AtMostOneActiveSubscription ==
    /\ Cardinality(Active) <= 1
    /\ \A t \in 1..Len(tasks) : tasks[t] = "running" => watch_task = Some(t)
    /\ \A e \in 1..MaxEvents : delivered[e] <= 1

\* two subscriptions were started one after the other; the first is finished,
\* the second runs and has notified an event
C1_Witness ==
    /\ tasks = <<"cancelled", "running">>
    /\ watch_task = Some(2)
    /\ delivered[1] = 1
    /\ \E i \in 1..Len(output) : IsNotification(output[i]) /\ output[i].by = 2

\* ---------------------------------------------------------------------
\* C2: a step that handles watch.unsubscribe while the handle is None writes
\* exactly the result "unsubscribed" under the request id (nothing when the id
\* is omitted), writes no error, finishes in that step and leaves the handle None with no task
\* changed; the postcondition re-establishes the precondition, so a repeat
\* answers the same.
C2_UnsubscribeIdle ==
    [][ ( /\ ParsedObject
          /\ request'.method = Some("watch.unsubscribe")
          /\ watch_task = None )
        => ( /\ output' = IF request'.id = None THEN output
                          ELSE Append(output,
                                      ResultLine(request'.id, "unsubscribed"))
             /\ pc' = "handled"
             /\ watch_task' = None
             /\ tasks' = tasks ) ]_vars

\* the second line was a watch.unsubscribe with an id, answered, and no task
\* was ever created
C2_Witness ==
    /\ nread = 2 /\ pc = "handled"
    /\ request.method = Some("watch.unsubscribe")
    /\ request.id # None
    /\ tasks = <<>>
    /\ output = <<ResultLine(request.id, "unsubscribed")>>

\* ---------------------------------------------------------------------
\* C3 (as claimed): when the handle names a task that has ended on its own,
\* the next watch.unsubscribe with an id is answered "unsubscribed" and leaves
\* no subscription, and the next watch.subscribe with an id and a resolvable
\* endpoint creates a running task and is answered "subscribed".
C3_EndedTaskIsNoSubscription ==
    [][ ( /\ ParsedObject
          /\ request'.id # None
          /\ watch_task # None
          /\ tasks[watch_task[1]] \in {"returned", "raised"} )
        => ( /\ request'.method = Some("watch.unsubscribe")
                => /\ output' = Append(output,
                                       ResultLine(request'.id, "unsubscribed"))
                   /\ watch_task' = None
             /\ ( /\ request'.method = Some("watch.subscribe")
                  /\ request'.params.isdict
                  /\ TruthyStr(OrStr(request'.params.napcat_url, env_url)) )
                => /\ output' = Append(output,
                                       ResultLine(request'.id, "subscribed"))
                   /\ tasks' = Append(tasks, "running")
                   /\ watch_task' = Some(Len(tasks')) ) ]_vars

\* ---------------------------------------------------------------------
\* C4: every notification written to the output is written by a task that is
\* running and is the one the handle names: a task whose cancellation has been
\* requested or acknowledged writes nothing, and nothing is notified while the
\* handle is None (from an unsubscribe to the next successful subscribe).
C4_NoNotificationAfterCancel ==
    [][ \A i \in 1..Len(output') :
          ( /\ IsNotification(output'[i])
            /\ (i > Len(output) \/ output[i] # output'[i]) )
          => /\ tasks[output'[i].by] = "running"
             /\ watch_task = Some(output'[i].by) ]_vars

\* an unsubscribe was answered after the task's cancellation was awaited, and
\* the gateway has an event that the cancelled task never notified
C4_Witness ==
    /\ pc = "handled"
    /\ request.method = Some("watch.unsubscribe")
    /\ tasks = <<"cancelled">>
    /\ cursor[1] < nevents
    /\ Responses = <<ResultLine(request.id, "unsubscribed")>>

\* ---------------------------------------------------------------------
\* C5: while the last parsed request has no id, the output written since it
\* was read holds no response line, whatever the method and the outcome.
C5_NoIdNoResponse == request.id = None => Responses = <<>>

\* a send without id went to the relay and the relay answered: nothing written
C5_Witness ==
    /\ pc = "handled"
    /\ request.kind = "object" /\ request.id = None
    /\ request.method = Some("send")
    /\ relay # <<>>
    /\ reply \in RelayResponses
    /\ Responses = <<>>

\* ---------------------------------------------------------------------
\* C6: a parsed request with an id has no response while its handler is
\* suspended, and once handled exactly one response line, carrying that id
\* and exactly one of result / error.
C6_ExactlyOneResponse ==
    (request.kind = "object" /\ request.id # None)
    => IF pc \in {"stop_wait", "relay_wait"}
       THEN Responses = <<>>
       ELSE /\ Len(Responses) = 1
            /\ Responses[1].line.id = request.id
            /\ IsResult(Responses[1]) # IsError(Responses[1])

\* message.send with an id was delegated to send, and the relay's answer was
\* written as the one response
C6_Witness ==
    /\ pc = "handled"
    /\ request.method = Some("message.send") /\ request.id # None
    /\ reply \in RelayResponses
    /\ Responses = <<ResultLine(request.id, reply)>>

\* ---------------------------------------------------------------------
\* C7 (as claimed): the dispatch loop ends only at end of input; no parsed
\* line ends it.
C7_OnlyEofEndsLoop ==
    pc \notin {"read", "stop_wait", "relay_wait", "handled"}
    => pc = "closed"

\* ---------------------------------------------------------------------
\* C8: a step that handles a request with an id whose method is none of the
\* six known ones writes exactly one error response of code -32601 under that
\* id, finishes in that step, issues no relay command and leaves the handle
\* and every task as they were.
C8_UnknownMethod ==
    [][ ( /\ ParsedObject
          /\ request'.method \notin {Some(m) : m \in KnownMethods}
          /\ request'.id # None )
        => ( /\ Len(output') = Len(output) + 1
             /\ SubSeq(output', 1, Len(output)) = output
             /\ IsError(output'[Len(output')])
             /\ output'[Len(output')].line.error.code = -32601
             /\ output'[Len(output')].line.id = request'.id
             /\ pc' = "handled"
             /\ relay' = <<>>
             /\ UNCHANGED <<watch_task, stopping, tasks, cursor>> ) ]_vars

\* an unknown method was answered -32601 while a subscription was running
C8_Witness ==
    /\ pc = "handled"
    /\ request.method = Some("bogus") /\ request.id # None
    /\ watch_task = Some(1) /\ tasks = <<"running">>
    /\ Responses = <<ErrorLine(request.id, -32601, "Method not found")>>

\* ---------------------------------------------------------------------
\* the send parameters C9 calls missing or invalid
InvalidSendParams(p) ==
    \/ /\ p.channel = Some("group_forward")
       /\ ~TruthyList(p.messages) /\ ~TruthyList(p.nodes)
    \/ /\ p.channel \in {Some("group"), Some("private")}
       /\ ~TruthyList(p.message)
    \/ /\ p.channel # None
       /\ p.channel \notin {Some("group"), Some("private"), Some("group_forward")}

\* C9 (as claimed): a handled send with an id and missing or invalid
\* parameters has one error response of code -32602 and no relay command.
C9_InvalidSendIs32602 ==
    ( /\ request.kind = "object" /\ request.method = Some("send")
      /\ request.id # None
      /\ request.params.isdict /\ InvalidSendParams(request.params) )
    => /\ relay = <<>>
       /\ Len(Responses) = 1
       /\ IsError(Responses[1])
       /\ Responses[1].line.error.code = -32602

\* ---------------------------------------------------------------------
\* C10: for a send with channel group, a group id and a non-empty message
\* list, exactly one command went to the relay, a group message carrying that
\* group id and that message list; and once the relay has answered, the one
\* response is the relay's answer as the result under the request id.
C10_GroupSend ==
    ( /\ request.kind = "object" /\ request.method = Some("send")
      /\ request.params.isdict
      /\ request.params.channel = Some("group")
      /\ TruthyStr(request.params.group_id)
      /\ TruthyList(request.params.message) )
    => /\ relay = <<[type |-> "send_group_msg",
                     target |-> request.params.group_id,
                     body |-> request.params.message[1]]>>
       /\ (reply \in RelayResponses /\ request.id # None)
          => Responses = <<ResultLine(request.id, reply)>>

\* a group send with an id was answered with the relay's response
C10_Witness ==
    /\ pc = "handled"
    /\ request.method = Some("send") /\ request.id # None
    /\ request.params.channel = Some("group")
    /\ request.params.group_id = Some("123")
    /\ request.params.message = Some(<<Seg>>)
    /\ reply = "relay:failed"
    /\ Len(relay) = 1
    /\ Responses = <<ResultLine(request.id, "relay:failed")>>

\* ---------------------------------------------------------------------
\* a watch.subscribe whose params are a dict without a truthy napcat_url
\* while NAPCAT_URL is unset
NoEndpoint(r) ==
    /\ r.kind = "object" /\ r.method = Some("watch.subscribe")
    /\ r.params.isdict
    /\ ~TruthyStr(OrStr(r.params.napcat_url, env_url))

\* C11: while a watch.subscribe without a resolvable endpoint is handled no
\* task is created; the step that finishes it leaves the handle None and, when
\* the request has an id, writes exactly one line, an error response of code
\* -32000 under that id.
C11_SubscribeWithoutEndpoint ==
    [][ NoEndpoint(request')
        => ( /\ Len(tasks') = Len(tasks)
             /\ (pc # "handled" /\ pc' = "handled")
                => /\ watch_task' = None
                   /\ \A t \in 1..Len(tasks') : tasks'[t] # "running"
                   /\ IF request'.id = None THEN output' = output
                      ELSE /\ Len(output') = Len(output) + 1
                           /\ SubSeq(output', 1, Len(output)) = output
                           /\ IsError(output'[Len(output')])
                           /\ output'[Len(output')].line.error.code = -32000
                           /\ output'[Len(output')].line.id = request'.id ) ]_vars

\* the first line was a watch.subscribe without endpoint and with an id: it is
\* answered "NAPCAT_URL is required" and no task exists
C11_Witness ==
    /\ pc = "handled" /\ nread = 1
    /\ NoEndpoint(request) /\ request.id # None
    /\ tasks = <<>> /\ watch_task = None
    /\ output = <<ErrorLine(request.id, -32000, "NAPCAT_URL is required")>>

\* ---------------------------------------------------------------------
\* C12: the step that creates a subscription task is the step that writes the
\* response: in that one step of serve the handle is set to the new task, which
\* has taken no event from the gateway yet, the result "subscribed" is written
\* under the request id and the handler is finished, whatever the gateway has
\* produced.
C12_SubscribedWithoutWaiting ==
    [][ Len(tasks') = Len(tasks) + 1
        => ( /\ request'.method = Some("watch.subscribe")
             /\ watch_task' = Some(Len(tasks'))
             /\ tasks'[Len(tasks')] = "running"
             /\ cursor'[Len(tasks')] = nevents
             /\ delivered' = delivered
             /\ output' = IF request'.id = None THEN output
                          ELSE Append(output,
                                      ResultLine(request'.id, "subscribed"))
             /\ pc' = "handled" ) ]_vars

\* a watch.subscribe with an id is answered "subscribed" and its task runs,
\* while the gateway has not produced a single event
C12_Witness ==
    /\ pc = "handled"
    /\ request.method = Some("watch.subscribe") /\ request.id # None
    /\ nevents = 0
    /\ tasks = <<"running">> /\ watch_task = Some(1) /\ cursor = <<0>>
    /\ output = <<ResultLine(request.id, "subscribed")>>

\* ---------------------------------------------------------------------
\* C13: a step reads an input line only when serve is at the readline with
\* nothing of an earlier line left to do: no task cancellation awaited and no
\* relay command unanswered; and every response a step writes carries the id
\* of the line read last, while its handling is not yet finished or finishes
\* in that step.  So the responses stand on the output in the order of their
\* requests.
C13_Sequential ==
    [][ /\ nread' # nread
           => /\ pc = "read"
              /\ stopping = None
              /\ (relay = <<>> \/ reply # "none")
        /\ \A i \in 1..Len(output') :
              ( /\ IsResponse(output'[i])
                /\ (i > Len(output) \/ output[i] # output'[i]) )
              => /\ pc # "handled"
                 /\ pc' = "handled"
                 /\ request'.kind = "object"
                 /\ output'[i].line.id = request'.id
                 /\ output'[i].by = ByServe ]_vars

\* three lines were read one after the other: two subscriptions were started
\* and each was cancelled and awaited while the next line was handled, and the
\* third line, a watch.unsubscribe, has just been answered
C13_Witness ==
    /\ nread = 3 /\ pc = "handled"
    /\ request.method = Some("watch.unsubscribe") /\ request.id # None
    /\ tasks = <<"cancelled", "cancelled">>
    /\ Responses = <<ResultLine(request.id, "unsubscribed")>>

Absent(v) == v = None \/ \A i \in 1..Len(v[1]) : v[1][i] = Blank

\* C16: a call of sentence_recognize with an empty audio buffer, or made while
\* TENCENT_SECRET_ID or TENCENT_SECRET_KEY is absent or blank, has ended by
\* raising, with no headers signed and no POST issued.
C16_FailsBeforeNetwork ==
    ( /\ asr_call # None
      /\ \/ asr_call[1].data = <<>>
         \/ Absent(asr_env.TENCENT_SECRET_ID)
         \/ Absent(asr_env.TENCENT_SECRET_KEY) )
    => /\ asr_call[1].end.raised # None
       /\ asr_call[1].end.raised[1].type \in {"ValueError", "RuntimeError"}
       /\ asr_call[1].end.headers = None
       /\ asr_call[1].end.posts = 0

\* with both credentials set, a call with a 0-byte buffer raised "Audio data
\* is empty" and signed nothing
C16_Witness ==
    /\ asr_call # None
    /\ asr_call[1].data = <<>>
    /\ ~Absent(asr_env.TENCENT_SECRET_ID)
    /\ ~Absent(asr_env.TENCENT_SECRET_KEY)
    /\ asr_call[1].end = Raised("ValueError", "Audio data is empty", None, 0)

\* ---------------------------------------------------------------------
\* C17 (as claimed): a call of sentence_recognize with non-empty audio and both
\* credentials present reaches the POST, issues it once and raises nothing on
\* the way.
C17_ReachesPostAndReturns ==
    ( /\ asr_call # None
      /\ asr_call[1].data # <<>>
      /\ ~Absent(asr_env.TENCENT_SECRET_ID)
      /\ ~Absent(asr_env.TENCENT_SECRET_KEY) )
    => /\ asr_call[1].end.raised = None
       /\ asr_call[1].end.posts = 1

\* ---------------------------------------------------------------------
\* the channel C18 says send resolves: the channel parameter as given, else
\* group when group_id is present, else private when user_id is present
ClaimedChannel(p) ==
    IF p.channel # None THEN p.channel
    ELSE IF p.group_id # None THEN Some("group")
    ELSE IF p.user_id # None THEN Some("private")
    ELSE None

\* group, private or group_forward; anything else is unsupported
ChannelKind(c) ==
    IF c \in {Some("group"), Some("private"), Some("group_forward")}
    THEN c[1] ELSE "unsupported"

\* the channel a handled send has acted on, read off the command it issued or
\* the error it wrote
ActedChannel ==
    IF relay # <<>>
    THEN ( IF relay[1].type = "send_group_msg" THEN "group"
           ELSE IF relay[1].type = "send_private_msg" THEN "private"
           ELSE "group_forward" )
    ELSE LET message == Responses[1].line.error.message
         IN  IF message = "message is required for group send" THEN "group"
             ELSE IF message = "message is required for private send"
             THEN "private"
             ELSE IF message = "messages is required for group_forward"
             THEN "group_forward"
             ELSE "unsupported"

\* C18 (as claimed): a send with an id has acted on the channel given by the
\* channel parameter, or, without one, by the presence of group_id, else of
\* user_id, and on nothing else.
C18_ChannelResolution ==
    ( /\ request.kind = "object" /\ request.method = Some("send")
      /\ request.id # None /\ request.params.isdict
      /\ pc \in {"relay_wait", "handled"} )
    => ActedChannel = ChannelKind(ClaimedChannel(request.params))

\* the channel of the amended claim: the channel parameter, or without one the
\* type parameter; without both, group for a group_id, else private for a
\* user_id (a parameter that is absent or empty counts as not given)
AmendedChannel(p) ==
    LET given == IF TruthyStr(p.channel) THEN p.channel ELSE p.type
    IN  IF TruthyStr(given) THEN given
        ELSE IF TruthyStr(p.group_id) THEN Some("group")
        ELSE IF TruthyStr(p.user_id) THEN Some("private")
        ELSE None

\* C18 (amended): a send with an id has acted on the channel given by the
\* channel parameter or, without it, by its alias type; without both, on group
\* when group_id is present, else on private when user_id is present; the
\* message, messages and nodes parameters have no part in the choice.
C18_ChannelResolutionWithAlias ==
    ( /\ request.kind = "object" /\ request.method = Some("send")
      /\ request.id # None /\ request.params.isdict
      /\ pc \in {"relay_wait", "handled"} )
    => ActedChannel = ChannelKind(AmendedChannel(request.params))

\* a send without channel, with type "private" and a user_id, went out as a
\* private message
C18_Witness ==
    /\ pc = "relay_wait"
    /\ request.method = Some("send") /\ request.id # None
    /\ request.params.channel = None
    /\ request.params.type = Some("private")
    /\ relay = <<[type |-> "send_private_msg", target |-> Some("456"),
                  body |-> <<Seg>>]>>

\* ---------------------------------------------------------------------
\* the send C19 says message.send stands for
ClaimedSend(p) ==
    LET target == IF p.to # None THEN p.to
                  ELSE IF p.chatId # None THEN p.chatId ELSE p.chat_id
    IN  IF TruthyBool(p.isGroup)
        THEN [EmptyParams EXCEPT !.channel = Some("group"), !.group_id = target,
                !.message = Some(<<"seg:text:" \o p.text[1]>>)]
        ELSE [EmptyParams EXCEPT !.channel = Some("private"), !.user_id = target,
                !.message = Some(<<"seg:text:" \o p.text[1]>>)]

HasTargetAndText(p) ==
    /\ p.text # None
    /\ p.to # None \/ p.chatId # None \/ p.chat_id # None

\* C19: a message.send with a target and a text has issued exactly the relay
\* command send issues for the claimed parameters, and is answered as send is:
\* nothing while the relay is awaited, then the relay's response as the
\* result, or error -32000 when the relay call failed; without target or text
\* it is answered with error -32602 and nothing went to the relay.
C19_MessageSendIsSend ==
    ( /\ request.kind = "object" /\ request.method = Some("message.send")
      /\ request.id # None /\ request.params.isdict )
    => IF HasTargetAndText(request.params)
       THEN /\ SendPlan(ClaimedSend(request.params)).ok
            /\ relay = <<SendPlan(ClaimedSend(request.params)).cmd>>
            /\ reply = "none" => Responses = <<>> /\ pc = "relay_wait"
            /\ reply \in RelayResponses
               => Responses = <<ResultLine(request.id, reply)>>
            /\ reply = "fault"
               => Responses = <<ErrorLine(request.id, SendErrorCode,
                                          RelayFaultText)>>
       ELSE /\ relay = <<>>
            /\ Len(Responses) = 1
            /\ IsError(Responses[1])
            /\ Responses[1].line.error.code = -32602

\* a message.send to a group, addressed with chatId, was sent as a group
\* message and answered with the relay's response
C19_Witness ==
    /\ pc = "handled"
    /\ request.method = Some("message.send") /\ request.id # None
    /\ request.params.to = None /\ request.params.chatId = Some("77")
    /\ request.params.isGroup = Some(TRUE)
    /\ request.params.text = Some("hi")
    /\ relay = <<[type |-> "send_group_msg", target |-> Some("77"),
                  body |-> <<"seg:text:hi">>]>>
    /\ reply \in RelayResponses
    /\ Responses = <<ResultLine(request.id, reply)>>

\* ---------------------------------------------------------------------
\* C20: a step that consumes a line which is blank or is not JSON writes
\* nothing, leaves the handle, every task and the relay as they were, and
\* leaves serve at the readline, ready for the next line.
C20_SkippedLines ==
    [][ (nread' # nread /\ request'.kind \in {"blank", "invalid"})
        => ( /\ output' = <<>>
             /\ relay' = <<>> /\ reply' = "none"
             /\ pc' = "read"
             /\ UNCHANGED <<watch_task, stopping, tasks, cursor, delivered>> )
      ]_vars

\* with a subscription running, the third line read was blank: nothing is
\* written, the task still runs and serve is at the readline again
C20_Witness ==
    /\ nread = 3 /\ pc = "read"
    /\ request.kind = "blank"
    /\ output = <<>>
    /\ tasks = <<"running">> /\ watch_task = Some(1)

\* ---------------------------------------------------------------------
\* C21: a step that changes the subscription handle is a step of serve
\* handling a watch.subscribe or a watch.unsubscribe: serve leaves the
\* readline or the await of the cancelled task in it, and the request at hand
\* has one of the two methods.  Every other step, the background task's and
\* the handling of any other method, leaves the handle as it was.
C21_HandleFrame ==
    [][ watch_task' # watch_task
        => ( /\ pc \in {"read", "stop_wait"}
             /\ pc' # pc
             /\ request'.kind = "object"
             /\ request'.method \in {Some("watch.subscribe"),
                                     Some("watch.unsubscribe")} ) ]_vars

\* with a subscription running, the task wrote a notification while serve was
\* at the readline and then an initialize was answered: the handle still names
\* the running task
C21_Witness ==
    /\ pc = "handled"
    /\ request.method = Some("initialize") /\ request.id # None
    /\ watch_task = Some(1) /\ tasks = <<"running">>
    /\ Len(output) = 2
    /\ IsNotification(output[1]) /\ output[1].by = ByTask(1)
    /\ IsResult(output[2])

\* ---------------------------------------------------------------------
\* C22: from the step that reads a watch.subscribe without a resolvable
\* endpoint the handle is None; a task that was running then is cancelled in
\* that step and awaited, nothing being written before it has finished; and
\* when the request is answered, with an error of code -32000 when it has an
\* id, no task is running or still being cancelled.
C22_FailedSubscribeTearsDown ==
    [][ NoEndpoint(request')
        => ( /\ watch_task' = None
             /\ ( /\ pc = "read" /\ watch_task # None
                  /\ tasks[watch_task[1]] = "running" )
                => /\ tasks'[watch_task[1]] = "cancelling"
                   /\ pc' = "stop_wait"
                   /\ Responses' = <<>>
             /\ pc' = "handled"
                => /\ \A t \in 1..Len(tasks') :
                        tasks'[t] \notin {"running", "cancelling"}
                   /\ request'.id # None
                      => /\ Len(Responses') = 1
                         /\ IsError(Responses'[1])
                         /\ Responses'[1].line.error.code = -32000 ) ]_vars

\* a subscription was running when a watch.subscribe without endpoint came:
\* its task was cancelled and has finished, the request is answered
\* "NAPCAT_URL is required" and no subscription is left
C22_Witness ==
    /\ pc = "handled" /\ nread = 2
    /\ NoEndpoint(request) /\ request.id # None
    /\ tasks = <<"cancelled">> /\ watch_task = None
    /\ Responses = <<ErrorLine(request.id, -32000, "NAPCAT_URL is required")>>

\* ---------------------------------------------------------------------
\* C23: the step that creates a subscription task for a request with an id
\* writes the result "subscribed" as the last line of the output and no line
\* of the new task; and a task that writes a notification in a step existed
\* before that step.  So every notification of a task comes after the
\* response to the watch.subscribe that created it.
C23_SubscribedBeforeNotifications ==
    [][ /\ Len(tasks') = Len(tasks) + 1
           => /\ \A i \in 1..Len(output') : output'[i].by # ByTask(Len(tasks'))
              /\ request'.id # None
                 => /\ output' # <<>>
                    /\ output'[Len(output')]
                         = ResultLine(request'.id, "subscribed")
        /\ \A i \in 1..Len(output') :
              ( /\ IsNotification(output'[i])
                /\ (i > Len(output) \/ output[i] # output'[i]) )
              => /\ output'[i].by \in 1..Len(tasks)
                 /\ Len(tasks') = Len(tasks) ]_vars

\* the first line was a watch.subscribe; it has been answered and serve is
\* back at the readline, where the new task has written its first
\* notification
C23_Witness ==
    /\ pc = "read" /\ nread = 1
    /\ request = NoRequest
    /\ tasks = <<"running">> /\ watch_task = Some(1)
    /\ delivered[1] = 1
    /\ Len(output) = 1
    /\ IsNotification(output[1]) /\ output[1].by = ByTask(1)

====
